---- MODULE Spec2Model ----
(***************************************************************************)
(* The VoidTx batch payment contract (batchPay, estimateBatchCost,         *)
(* getStats) as a state machine over an EVM-like ledger.                   *)
(*                                                                         *)
(* One batchPay call is a frame on a call stack.  Between two external     *)
(* calls the contract's code runs as one step.  A value transfer to an     *)
(* externally owned account returns at once; a transfer to a contract      *)
(* account runs that contract's receive code, which is a frame of its own  *)
(* and may return, revert, or call batchPay again before it does either.   *)
(* A revert restores the ledger to what it was when the reverted frame     *)
(* began.                                                                  *)
(*                                                                         *)
(* Amounts are in units of 0.00005 ether, so that MIN_AMOUNT is 2, and     *)
(* machine words are UintBits wide instead of 256.                         *)
(***************************************************************************)
EXTENDS Integers, Sequences, FiniteSets, TLC

\* ------------------------------------------------------------ bounds
\* Width of an unsigned machine word of the model.
UintBits == 8
\* Number of transactions.
MaxCalls == 2
\* Number of times a callee of the contract calls batchPay again.
MaxReenter == 1

\* --------------------------------------------------------- constants
MIN_AMOUNT == 2
MAX_RECIPIENTS == 100

MaxUint == 2 ^ UintBits - 1

\* Revert reasons of the contract, under the names the specification uses.
EmptyBatch == "No payments provided"
BatchTooLarge == "Too many recipients"
InvalidRecipient == "Invalid recipient address"
AmountTooSmall == "Amount too small"
InsufficientFunds == "Insufficient funds sent"
RefundFailed == "Refund failed"
ExcessRefundFailed == "Excess refund failed"
\* Solidity 0.8 checked arithmetic: Panic(0x11).
Panic == "Panic(0x11)"
Completed == "completed"

ValidationErrors ==
    {EmptyBatch, BatchTooLarge, InvalidRecipient, AmountTooSmall, InsufficientFunds}

\* ---------------------------------------------------------- accounts
Zero == "address(0)"
Engine == "VoidTx"
Alice == "Alice"
Bob == "Bob"
Rejector == "RejectPayment"
Carol == "Carol"

\* Externally owned accounts: no code, a value transfer to them succeeds.
EOAs == {Alice, Bob}
\* Carol is a contract account whose code is not fixed: the environment.
Accounts == {Zero, Engine, Alice, Bob, Rejector, Carol}
Senders == {Alice, Carol}

None == [outcome |-> "none"]
NoView == [op |-> "none"]

VARIABLES
    totalPaymentsProcessed,   \* storage of the contract
    totalVolumeProcessed,     \* storage of the contract
    balance,                  \* ledger: account -> units held
    log,                      \* events of the running transaction
    sumSuccess,               \* history: successCount of the completed calls
    sumProcessed,             \* history: totalProcessed of the completed calls
    stack,                    \* call frames, innermost last
    ret,                      \* how the last batchPay call ended
    now,                      \* block.timestamp
    reentries,                \* batchPay calls made by callees so far
    view                      \* what the last read-only call returned

vars == <<totalPaymentsProcessed, totalVolumeProcessed, balance, log,
          sumSuccess, sumProcessed, stack, ret, now, reentries, view>>

\* Everything a revert restores.
World ==
    [tpp |-> totalPaymentsProcessed, tvp |-> totalVolumeProcessed,
     balance |-> balance, log |-> log,
     sumSuccess |-> sumSuccess, sumProcessed |-> sumProcessed]

SetWorld(w) ==
    /\ totalPaymentsProcessed' = w.tpp
    /\ totalVolumeProcessed' = w.tvp
    /\ balance' = w.balance
    /\ log' = w.log
    /\ sumSuccess' = w.sumSuccess
    /\ sumProcessed' = w.sumProcessed

Top(stk) == stk[Len(stk)]
Pop(stk) == SubSeq(stk, 1, Len(stk) - 1)

Min(a, b) == IF a < b THEN a ELSE b

RECURSIVE SumAmounts(_)
SumAmounts(payments) ==
    IF payments = <<>> THEN 0
    ELSE payments[1].amount + SumAmounts(Tail(payments))

Depth(stk) == Cardinality({k \in 1..Len(stk) : stk[k].kind = "batchPay"})

\* ------------------------------------------------------------ inputs
Big == 2 ^ (UintBits - 1)

Pay(r, a) == [recipient |-> r, amount |-> a]

\* The payments of the batches that pass validation: one an externally owned
\* account receives, one a contract always rejects, one a contract may accept,
\* reject or answer with a call of its own.
PaymentChoices ==
    {Pay(Bob, MIN_AMOUNT), Pay(Rejector, MIN_AMOUNT + 1), Pay(Carol, MIN_AMOUNT)}

\* Batches at the edges of validation and of the arithmetic.
EdgeBatches ==
    {<<Pay(Zero, MIN_AMOUNT)>>,
     <<Pay(Bob, MIN_AMOUNT), Pay(Zero, MIN_AMOUNT)>>,
     <<Pay(Bob, MIN_AMOUNT - 1)>>,
     <<Pay(Bob, MIN_AMOUNT), Pay(Bob, MIN_AMOUNT - 1)>>,
     <<Pay(Zero, MIN_AMOUNT - 1)>>,
     <<Pay(Engine, MIN_AMOUNT)>>,
     <<Pay(Alice, Big)>>,
     <<Pay(Alice, Big), Pay(Bob, Big)>>,
     <<Pay(Bob, MIN_AMOUNT - 1), Pay(Zero, MIN_AMOUNT)>>,
     <<Pay(Alice, Big), Pay(Bob, Big), Pay(Zero, MIN_AMOUNT)>>,
     [k \in 1..MAX_RECIPIENTS |-> Pay(Bob, MIN_AMOUNT)],
     [k \in 1..(MAX_RECIPIENTS + 1) |-> Pay(Bob, MIN_AMOUNT)]}

\* The batches a transaction is given: every batch of one of the payments
\* above, every batch of two of those that return at once, the batches of
\* two in which a contract that may call back is paid first or last, the
\* second boundary scenario of the specification (three payments, the
\* second one rejected), and the edges.
Batches ==
    {<<>>}
    \cup {<<p>> : p \in PaymentChoices}
    \cup {<<p, q>> : p \in PaymentChoices \ {Pay(Carol, MIN_AMOUNT)},
                     q \in PaymentChoices \ {Pay(Carol, MIN_AMOUNT)}}
    \cup {<<Pay(Carol, MIN_AMOUNT), Pay(Bob, MIN_AMOUNT)>>,
          <<Pay(Bob, MIN_AMOUNT), Pay(Carol, MIN_AMOUNT)>>}
    \cup {<<Pay(Bob, MIN_AMOUNT), Pay(Rejector, MIN_AMOUNT + 1), Pay(Bob, MIN_AMOUNT)>>}
    \cup EdgeBatches

\* The batches an estimate is asked for: the empty one, payable ones, one
\* with a zero recipient, one with an amount below the minimum, one whose
\* amounts overflow, and the ones of MAX_RECIPIENTS and MAX_RECIPIENTS + 1
\* payments.
EstimateBatches ==
    {<<>>,
     <<Pay(Bob, MIN_AMOUNT)>>,
     <<Pay(Bob, MIN_AMOUNT), Pay(Rejector, MIN_AMOUNT + 1), Pay(Bob, MIN_AMOUNT)>>,
     <<Pay(Bob, MIN_AMOUNT), Pay(Zero, MIN_AMOUNT)>>,
     <<Pay(Bob, MIN_AMOUNT - 1)>>,
     <<Pay(Alice, Big), Pay(Bob, Big)>>,
     [k \in 1..MAX_RECIPIENTS |-> Pay(Bob, MIN_AMOUNT)],
     [k \in 1..(MAX_RECIPIENTS + 1) |-> Pay(Bob, MIN_AMOUNT)]}

\* What a contract re-entering batchPay from its receive code submits.
NestedBatches ==
    {<<Pay(Bob, MIN_AMOUNT)>>, <<Pay(Carol, MIN_AMOUNT)>>}

\* What a sender submits in a transaction: the contract account the batches
\* it also re-enters with and one with a payment that fails, an externally
\* owned account any batch.
BatchesOf(sender) ==
    IF sender = Carol
    THEN NestedBatches
         \cup {<<Pay(Bob, MIN_AMOUNT), Pay(Rejector, MIN_AMOUNT + 1)>>}
    ELSE Batches

\* msg.value: one unit short, exact, one unit over; nothing, where the sender
\* cannot afford that.
Values(payments, funds) ==
    LET near == {v \in {SumAmounts(payments) - 1, SumAmounts(payments),
                        SumAmounts(payments) + 1} :
                    0 <= v /\ v <= Min(funds, MaxUint)}
    IN IF near = {} THEN {0} ELSE near

\* ------------------------------------------------------- the ledger
Move(b, from, to, amount) ==
    [[b EXCEPT ![from] = @ - amount] EXCEPT ![to] = @ + amount]

\* A revert that restores nothing.
RevertKeepsEffects(snap, w) == w

\* A revert that restores storage and events and leaves the transfers made.
RevertKeepsTransfers(snap, w) == [snap EXCEPT !.balance = w.balance]

\* A revert discards the world the reverted frame has built and puts back
\* the one it started from.
RevertTo(snap, w) == snap

\* --------------------------------------------------------- batchPay
\* Line 146 with the addition wrapping at the word size.
CheckPaymentWraps(payments, i, total) ==
    IF payments[i].recipient = Zero
    THEN [err |-> InvalidRecipient, line |-> 144, totalRequired |-> total]
    ELSE IF payments[i].amount < MIN_AMOUNT
    THEN [err |-> AmountTooSmall, line |-> 145, totalRequired |-> total]
    ELSE [err |-> "ok", line |-> 0,
          totalRequired |-> (total + payments[i].amount) % (MaxUint + 1)]

\* Line 145 with the minimum itself refused.
CheckPaymentAboveMin(payments, i, total) ==
    IF payments[i].recipient = Zero
    THEN [err |-> InvalidRecipient, line |-> 144, totalRequired |-> total]
    ELSE IF payments[i].amount <= MIN_AMOUNT
    THEN [err |-> AmountTooSmall, line |-> 145, totalRequired |-> total]
    ELSE IF total + payments[i].amount > MaxUint
    THEN [err |-> Panic, line |-> 146, totalRequired |-> total]
    ELSE [err |-> "ok", line |-> 0,
          totalRequired |-> total + payments[i].amount]

\* Lines 144-146 for payment i, with the running total before it.
CheckPayment(payments, i, total) ==
    IF payments[i].recipient = Zero
    THEN [err |-> InvalidRecipient, line |-> 144, totalRequired |-> total]
    ELSE IF payments[i].amount < MIN_AMOUNT
    THEN [err |-> AmountTooSmall, line |-> 145, totalRequired |-> total]
    ELSE IF total + payments[i].amount > MaxUint
    THEN [err |-> Panic, line |-> 146, totalRequired |-> total]
    ELSE [err |-> "ok", line |-> 0,
          totalRequired |-> total + payments[i].amount]

\* The validation loop of lines 143-147 over payments lo..hi, in order: the
\* first check to fail ends it.  The range is halved so that a batch of
\* MAX_RECIPIENTS payments is evaluated at a depth of its logarithm.
RECURSIVE ValidateRange(_, _, _, _)
ValidateRange(payments, lo, hi, total) ==
    IF lo > hi
    THEN [err |-> "ok", line |-> 0, totalRequired |-> total]
    ELSE IF lo = hi
    THEN CheckPayment(payments, lo, total)
    ELSE LET mid == (lo + hi) \div 2
             left == ValidateRange(payments, lo, mid, total)
         IN IF left.err # "ok"
            THEN left
            ELSE ValidateRange(payments, mid + 1, hi, left.totalRequired)

\* The funds check of line 150 with equality refused.
ValidateFromAbove(payments, value, i, total) ==
    LET v == ValidateRange(payments, i, Len(payments), total)
    IN IF v.err # "ok"
       THEN v
       ELSE IF value > v.totalRequired
       THEN v
       ELSE [err |-> InsufficientFunds, line |-> 150,
             totalRequired |-> v.totalRequired]

\* The validation loop from payment i on and the funds check of line 150;
\* `line` is the line of the check that failed.
ValidateFrom(payments, value, i, total) ==
    LET v == ValidateRange(payments, i, Len(payments), total)
    IN IF v.err # "ok"
       THEN v
       ELSE IF value >= v.totalRequired
       THEN v
       ELSE [err |-> InsufficientFunds, line |-> 150,
             totalRequired |-> v.totalRequired]

\* The funds check of line 150 left out.
ValidateUnfunded(payments, value) ==
    IF Len(payments) = 0
    THEN [err |-> EmptyBatch, line |-> 115, totalRequired |-> 0]
    ELSE IF Len(payments) > MAX_RECIPIENTS
    THEN [err |-> BatchTooLarge, line |-> 116, totalRequired |-> 0]
    ELSE ValidateFrom(payments, MaxUint, 1, 0)

\* The size check of line 116 with the limit itself excluded.
ValidateBelowLimit(payments, value) ==
    IF Len(payments) = 0
    THEN [err |-> EmptyBatch, line |-> 115, totalRequired |-> 0]
    ELSE IF Len(payments) >= MAX_RECIPIENTS
    THEN [err |-> BatchTooLarge, line |-> 116, totalRequired |-> 0]
    ELSE ValidateFrom(payments, value, 1, 0)

\* The size checks of the modifier made after the body's own checks.
ValidateSizeLast(payments, value) ==
    LET v == ValidateFrom(payments, value, 1, 0)
    IN IF v.err # "ok"
       THEN v
       ELSE IF Len(payments) = 0
       THEN [err |-> EmptyBatch, line |-> 115, totalRequired |-> 0]
       ELSE IF Len(payments) > MAX_RECIPIENTS
       THEN [err |-> BatchTooLarge, line |-> 116, totalRequired |-> 0]
       ELSE v

Validate(payments, value) ==
    IF Len(payments) = 0
    THEN [err |-> EmptyBatch, line |-> 115, totalRequired |-> 0]
    ELSE IF Len(payments) > MAX_RECIPIENTS
    THEN [err |-> BatchTooLarge, line |-> 116, totalRequired |-> 0]
    ELSE ValidateFrom(payments, value, 1, 0)

\* new PaymentResult[](paymentsLength): zero-initialised entries.
InitResults(n) ==
    [k \in 1..n |-> [success |-> FALSE, recipient |-> Zero, amount |-> 0]]

\* The frame of a call at its first statement.
NewFrame(sender, payments, value, snap) ==
    [kind |-> "batchPay", sender |-> sender, payments |-> payments, value |-> value,
     pc |-> "validate", i |-> 1, totalRequired |-> 0, results |-> <<>>,
     successCount |-> 0, failureCount |-> 0, totalProcessed |-> 0,
     failedAmount |-> 0, excess |-> 0,
     attempts |-> <<>>, outcomes |-> <<>>, refunds |-> <<>>, statsWrites |-> 0,
     snap |-> snap]

\* The revert reason in the data a failed call to `to` returns: the one of
\* RejectPayment's receive, the one of the contract's own receive, none from
\* a contract that reverts without data.
ReturnData(to) ==
    IF to = Rejector THEN "Payment rejected"
    ELSE IF to = Engine THEN "Use batchPay function"
    ELSE ""

\* The event carrying msg.value in place of totalRequired.
BatchPaymentInitiatedByValue(f, t) ==
    [event |-> "BatchPaymentInitiated", sender |-> f.sender,
     totalRecipients |-> Len(f.payments), totalAmount |-> f.value,
     timestamp |-> t]

BatchPaymentInitiated(f, t) ==
    [event |-> "BatchPaymentInitiated", sender |-> f.sender,
     totalRecipients |-> Len(f.payments), totalAmount |-> f.totalRequired,
     timestamp |-> t]

PaymentEvent(f, success) ==
    IF success
    THEN [event |-> "PaymentSuccess", sender |-> f.sender,
          recipient |-> f.payments[f.i].recipient,
          amount |-> f.payments[f.i].amount, index |-> f.i - 1]
    ELSE [event |-> "PaymentFailed", sender |-> f.sender,
          recipient |-> f.payments[f.i].recipient,
          amount |-> f.payments[f.i].amount, index |-> f.i - 1,
          reason |-> "Transfer failed"]

BatchPaymentCompleted(f) ==
    [event |-> "BatchPaymentCompleted", sender |-> f.sender,
     successCount |-> f.successCount, failureCount |-> f.failureCount,
     totalProcessed |-> f.totalProcessed]

\* A failed transfer recorded as a success.
RecordResultAsSuccess(f, success) ==
    LET p == f.payments[f.i]
        r == [success |-> TRUE, recipient |-> p.recipient, amount |-> p.amount]
    IN [f EXCEPT !.results[f.i] = r, !.i = @ + 1,
                 !.successCount = @ + 1, !.totalProcessed = @ + p.amount]

\* A failure counted as a failure and as a success.
RecordResultDoubleCounts(f, success) ==
    LET p == f.payments[f.i]
        r == [success |-> success, recipient |-> p.recipient, amount |-> p.amount]
        g == [f EXCEPT !.results[f.i] = r, !.i = @ + 1, !.successCount = @ + 1]
    IN IF success
       THEN [g EXCEPT !.totalProcessed = @ + p.amount]
       ELSE [g EXCEPT !.failureCount = @ + 1]

\* The result written only when the transfer succeeded.
RecordResultOnlySuccess(f, success) ==
    LET p == f.payments[f.i]
        r == [success |-> success, recipient |-> p.recipient, amount |-> p.amount]
    IN IF success
       THEN [f EXCEPT !.results[f.i] = r, !.i = @ + 1,
                      !.successCount = @ + 1, !.totalProcessed = @ + p.amount]
       ELSE [f EXCEPT !.i = @ + 1, !.failureCount = @ + 1]

\* The payment after a failed one skipped.
RecordResultSkipsAfterFailure(f, success) ==
    LET p == f.payments[f.i]
        r == [success |-> success, recipient |-> p.recipient, amount |-> p.amount]
    IN IF success
       THEN [f EXCEPT !.results[f.i] = r, !.i = @ + 1,
                      !.successCount = @ + 1, !.totalProcessed = @ + p.amount]
       ELSE [f EXCEPT !.results[f.i] = r, !.i = @ + 2, !.failureCount = @ + 1]

\* A failed transfer left pending: the call waits for it to be retried.
RecordResultAwaitsRetry(f, success) ==
    LET p == f.payments[f.i]
        r == [success |-> success, recipient |-> p.recipient, amount |-> p.amount]
        g == [f EXCEPT !.results[f.i] = r, !.i = @ + 1]
    IN IF success
       THEN [g EXCEPT !.successCount = @ + 1, !.totalProcessed = @ + p.amount]
       ELSE [f EXCEPT !.pc = "suspended"]

\* Lines 175-202 without the events: the result of payment i and the counters.
RecordResult(f, success) ==
    LET p == f.payments[f.i]
        r == [success |-> success, recipient |-> p.recipient, amount |-> p.amount]
        g == [f EXCEPT !.results[f.i] = r, !.i = @ + 1]
    IN IF success
       THEN [g EXCEPT !.successCount = @ + 1, !.totalProcessed = @ + p.amount]
       ELSE [g EXCEPT !.failureCount = @ + 1]

\* The volume counted as what was attached instead of what was delivered.
AddStatsByValue(w, f) ==
    [w EXCEPT !.tpp = @ + f.successCount, !.tvp = @ + f.value]

\* Every payment of the batch counted, delivered or not.
AddStatsCountsAttempts(w, f) ==
    [w EXCEPT !.tpp = @ + f.successCount + f.failureCount,
              !.tvp = @ + f.totalProcessed]

\* The counters written from the values read when the call began.
AddStatsFromEntry(w, f) ==
    [w EXCEPT !.tpp = f.snap.tpp + f.successCount,
              !.tvp = f.snap.tvp + f.totalProcessed]

\* totalPaymentsProcessed += successCount; totalVolumeProcessed += totalProcessed
AddStats(w, f) ==
    [w EXCEPT !.tpp = @ + f.successCount, !.tvp = @ + f.totalProcessed]

\* The call whose frame is on top of stk ends: with Completed it returns
\* its results, with anything else it reverts.
Terminate(stk, w, outcome, line) ==
    LET f == Top(stk)
        w1 == IF outcome = Completed
              THEN [w EXCEPT !.sumSuccess = @ + f.successCount,
                             !.sumProcessed = @ + f.totalProcessed]
              ELSE RevertTo(f.snap, w)
    IN [stack |-> Pop(stk),
        w |-> w1,
        ret |-> [outcome |-> outcome, line |-> line, depth |-> Depth(stk),
                 sender |-> f.sender, payments |-> f.payments, value |-> f.value,
                 results |-> f.results, totalRequired |-> f.totalRequired,
                 successCount |-> f.successCount, failureCount |-> f.failureCount,
                 totalProcessed |-> f.totalProcessed,
                 failedAmount |-> f.failedAmount, excess |-> f.excess,
                 attempts |-> f.attempts, outcomes |-> f.outcomes,
                 refunds |-> f.refunds,
                 statsWrites |-> f.statsWrites,
                 pre |-> f.snap, post |-> w1]]

\* The outcome of the refund ignored.
RefundUnchecked(refundSuccess) == TRUE

\* The outcome of the excess refund ignored.
ExcessRefundUnchecked(excessRefund) == TRUE

\* The excess kept by the contract.
ExcessDropped(f) == 0

\* require(refundSuccess, "Refund failed")
RequireRefund(refundSuccess) == refundSuccess

\* require(excessRefund, "Excess refund failed")
RequireExcessRefund(excessRefund) == excessRefund

\* The excess counted among the funds of failed payments, and so returned
\* twice.
FailedAmountWithExcess(f) == f.value - f.totalProcessed

\* The funds of failed payments never returned.
FailedAmountForgotten(f) == 0

\* totalRequired - totalProcessed
FailedAmount(f) == f.totalRequired - f.totalProcessed

\* The excess measured against what was delivered instead of what was
\* required.
ExcessOverDelivered(f) == f.value - f.totalProcessed

\* msg.value - totalRequired
Excess(f) == f.value - f.totalRequired

ReplaceTop(stk, f) == [stk EXCEPT ![Len(stk)] = f]

\* The counters written after every payment, the rest of the batch dropped.
AfterPaymentWritesEach(g) == [g EXCEPT !.pc = "stats"]

\* The loop condition of line 168: after the last payment the call goes on
\* to the statistics of lines 204-206.
AfterPayment(g) ==
    IF g.i > Len(g.payments) THEN [g EXCEPT !.pc = "stats"] ELSE g

\* The external call the frame on top of stk was waiting for has returned.
Deliver(stk, w, success) ==
    LET f == Top(stk)
    IN CASE f.pc = "pay" ->
              LET g == RecordResult([f EXCEPT !.outcomes = Append(@, success)], success)
                  h == AfterPayment(g)
              IN [stack |-> ReplaceTop(stk, h),
                  w |-> [w EXCEPT !.log = Append(@, PaymentEvent(f, success))],
                  ret |-> ret]
         [] f.pc = "refund" ->
              LET g == [f EXCEPT !.refunds =
                            Append(@, [kind |-> "failed", amount |-> f.failedAmount,
                                       success |-> success]),
                                 !.pc = "excess"]
              IN IF RequireRefund(success)
                 THEN [stack |-> ReplaceTop(stk, g), w |-> w, ret |-> ret]
                 ELSE Terminate(ReplaceTop(stk, g), w, RefundFailed, 220)
         [] f.pc = "excess" ->
              LET g == [f EXCEPT !.refunds =
                            Append(@, [kind |-> "excess", amount |-> f.excess,
                                       success |-> success]),
                                 !.pc = "return"]
              IN IF RequireExcessRefund(success)
                 THEN Terminate(ReplaceTop(stk, g), w, Completed, 230)
                 ELSE Terminate(ReplaceTop(stk, g), w, ExcessRefundFailed, 227)

\* The contract's receive code taking what the contract sends to itself.
CallOutKeptByEngine(stk, w, to, amount) ==
    IF w.balance[Engine] < amount
    THEN Deliver(stk, w, FALSE)
    ELSE IF to \in EOAs \cup {Zero, Engine}
    THEN Deliver(stk, [w EXCEPT !.balance = Move(@, Engine, to, amount)], TRUE)
    ELSE IF to = Carol
    THEN [stack |-> Append(stk, [kind |-> "receive", who |-> to, snap |-> w]),
          w |-> [w EXCEPT !.balance = Move(@, Engine, to, amount)],
          ret |-> ret]
    ELSE Deliver(stk, w, FALSE)

\* to.call{value: amount}("") from the contract.
CallOut(stk, w, to, amount) ==
    IF w.balance[Engine] < amount
    THEN Deliver(stk, w, FALSE)
    ELSE IF to \in EOAs \cup {Zero}
    THEN Deliver(stk, [w EXCEPT !.balance = Move(@, Engine, to, amount)], TRUE)
    ELSE IF to = Carol
    THEN [stack |-> Append(stk, [kind |-> "receive", who |-> to, snap |-> w]),
          w |-> [w EXCEPT !.balance = Move(@, Engine, to, amount)],
          ret |-> ret]
    ELSE Deliver(stk, w, FALSE)

\* sender calls batchPay{value: value}(payments): lines 133-161.
EnterBatchPay(stk, w, sender, payments, value) ==
    LET v == Validate(payments, value)
        w1 == [w EXCEPT !.balance = Move(@, sender, Engine, value)]
        f0 == NewFrame(sender, payments, value, w)
        f1 == [f0 EXCEPT !.totalRequired = v.totalRequired,
                         !.results = InitResults(Len(payments)),
                         !.pc = "pay"]
    IN IF v.err # "ok"
       THEN Terminate(Append(stk, f0), w1, v.err, v.line)
       ELSE [stack |-> Append(stk, f1),
             w |-> [w1 EXCEPT !.log = Append(@, BatchPaymentInitiated(f1, now))],
             ret |-> None]

Apply(m) ==
    /\ stack' = m.stack
    /\ ret' = m.ret
    /\ SetWorld(m.w)
    /\ UNCHANGED now

Running(pc) ==
    /\ stack # <<>>
    /\ Top(stack).kind = "batchPay"
    /\ Top(stack).pc = pc

\* ------------------------------------------------------------ actions
Init ==
    /\ totalPaymentsProcessed = 0
    /\ totalVolumeProcessed = 0
    /\ balance = [a \in Accounts |->
                    IF a = Alice THEN MaxUint - 4 ELSE IF a = Carol THEN 4 ELSE 0]
    /\ log = <<>>
    /\ sumSuccess = 0
    /\ sumProcessed = 0
    /\ stack = <<>>
    /\ ret = None
    /\ now = 0
    /\ reentries = 0
    /\ view = NoView

\* A transaction calling batchPay.
Transact ==
    /\ UNCHANGED <<reentries, view>>
    /\ view = NoView
    /\ stack = <<>>
    /\ ret = None
    /\ now < MaxCalls
    /\ \E sender \in Senders :
         \E payments \in BatchesOf(sender) :
         \E value \in Values(payments, balance[sender]) :
            Apply(EnterBatchPay(stack, World, sender, payments, value))

\* Line 172: the transfer of payment i.
Transfer ==
    /\ UNCHANGED <<reentries, view>>
    /\ Running("pay")
    /\ LET f == Top(stack)
           g == [f EXCEPT !.attempts = Append(@, f.i)]
       IN Apply(CallOut(ReplaceTop(stack, g), World,
                        f.payments[f.i].recipient, f.payments[f.i].amount))

\* Lines 204-214.
UpdateStats ==
    /\ UNCHANGED <<reentries, view>>
    /\ Running("stats")
    /\ LET f == Top(stack)
           g == [f EXCEPT !.pc = "refund", !.statsWrites = @ + 1]
       IN IF totalPaymentsProcessed + f.successCount > MaxUint
          THEN Apply(Terminate(stack, World, Panic, 205))
          ELSE IF totalVolumeProcessed + f.totalProcessed > MaxUint
          THEN Apply(Terminate(stack, World, Panic, 206))
          ELSE Apply([stack |-> ReplaceTop(stack, g),
                      w |-> [AddStats(World, f) EXCEPT
                                !.log = Append(@, BatchPaymentCompleted(f))],
                      ret |-> ret])

\* Lines 216-221.
Refund ==
    /\ UNCHANGED <<reentries, view>>
    /\ Running("refund")
    /\ LET f == Top(stack)
           g == [f EXCEPT !.failedAmount = FailedAmount(f)]
       IN IF FailedAmount(f) < 0
          THEN Apply(Terminate(stack, World, Panic, 217))
          ELSE IF g.failedAmount > 0
          THEN Apply(CallOut(ReplaceTop(stack, g), World, f.sender, g.failedAmount))
          ELSE Apply([stack |-> ReplaceTop(stack, [g EXCEPT !.pc = "excess"]),
                      w |-> World, ret |-> ret])

\* Lines 223-230.
RefundExcess ==
    /\ UNCHANGED <<reentries, view>>
    /\ Running("excess")
    /\ LET f == Top(stack)
           g == [f EXCEPT !.excess = Excess(f)]
       IN IF Excess(f) < 0
          THEN Apply(Terminate(stack, World, Panic, 224))
          ELSE IF g.excess > 0
          THEN Apply(CallOut(ReplaceTop(stack, g), World, f.sender, g.excess))
          ELSE Apply(Terminate(ReplaceTop(stack, [g EXCEPT !.pc = "return"]),
                               World, Completed, 230))

\* The receive code drops the return value of the call it made, if that call
\* is not the one ending now.
Consumed(m) == IF m.stack = Pop(Pop(stack)) THEN m ELSE [m EXCEPT !.ret = None]

Receiving ==
    /\ stack # <<>>
    /\ Top(stack).kind = "receive"

\* The receive code of a contract account returns: the transfer succeeded.
ReceiveAccept ==
    /\ UNCHANGED <<reentries, view>>
    /\ Receiving
    /\ Apply(Consumed(Deliver(Pop(stack), World, TRUE)))

\* It reverts: the transfer failed and everything it did is undone.
ReceiveReject ==
    /\ UNCHANGED <<reentries, view>>
    /\ Receiving
    /\ Apply(Consumed(Deliver(Pop(stack), RevertTo(Top(stack).snap, World), FALSE)))

\* It calls batchPay itself.
ReceiveReenter ==
    /\ Receiving
    /\ reentries < MaxReenter
    /\ reentries' = reentries + 1
    /\ UNCHANGED view
    /\ \E payments \in NestedBatches :
         \E value \in Values(payments, balance[Top(stack).who]) :
            Apply(EnterBatchPay(stack, World, Top(stack).who, payments, value))

\* The transaction is over.
Commit ==
    /\ stack = <<>>
    /\ ret # None
    /\ ret' = None
    /\ log' = <<>>
    /\ now' = now + 1
    /\ UNCHANGED <<reentries, view>>
    /\ UNCHANGED <<totalPaymentsProcessed, totalVolumeProcessed, balance,
                   sumSuccess, sumProcessed, stack>>

\* ------------------------------------------------- read-only calls
\* The loop of lines 243-245 over payments lo..hi, in order: total += amount
\* with checked addition and nothing else.  The range is halved as in
\* ValidateRange.
RECURSIVE EstimateRange(_, _, _, _)
EstimateRange(payments, lo, hi, total) ==
    IF lo > hi
    THEN [err |-> "ok", total |-> total]
    ELSE IF lo = hi
    THEN IF total + payments[lo].amount > MaxUint
         THEN [err |-> Panic, total |-> total]
         ELSE [err |-> "ok", total |-> total + payments[lo].amount]
    ELSE LET mid == (lo + hi) \div 2
             left == EstimateRange(payments, lo, mid, total)
         IN IF left.err # "ok"
            THEN left
            ELSE EstimateRange(payments, mid + 1, hi, left.total)

\* The estimate made with the validation of batchPay in front of it.
estimateBatchCostValidated(payments) ==
    LET v == Validate(payments, MaxUint)
    IN IF v.err = "ok"
       THEN [outcome |-> "returned", total |-> v.totalRequired]
       ELSE [outcome |-> v.err]

\* estimateBatchCost: the total, or the revert of the overflowing addition.
estimateBatchCost(payments) ==
    LET e == EstimateRange(payments, 1, Len(payments), 0)
    IN IF e.err = "ok"
       THEN [outcome |-> "returned", total |-> e.total]
       ELSE [outcome |-> e.err]

\* The two return values in the wrong order.
getStatsSwapped(w) ==
    [outcome |-> "returned",
     paymentsProcessed |-> w.tvp, volumeProcessed |-> w.tpp]

\* getStats: the two counters as stored.
getStats(w) ==
    [outcome |-> "returned",
     paymentsProcessed |-> w.tpp, volumeProcessed |-> w.tvp]

\* What a read-only call leaves behind: its answer, the answer of the call
\* before it when that was the same call, and the counters and balances it
\* found.
Answer(op, input, output) ==
    [op |-> op, input |-> input, output |-> output,
     previous |-> IF view.op = op /\ view.input = input
                  THEN view.output ELSE [outcome |-> "none"],
     found |-> <<totalPaymentsProcessed, totalVolumeProcessed>>,
     balances |-> balance]

\* A call of estimateBatchCost between two transactions, or the same call
\* made once more.
CallEstimateBatchCost ==
    /\ stack = <<>>
    /\ ret = None
    /\ \E payments \in EstimateBatches :
          /\ view = NoView
                \/ (view.op = "estimateBatchCost" /\ view.input = payments)
          /\ view' = Answer("estimateBatchCost", payments,
                            estimateBatchCost(payments))
    /\ UNCHANGED <<totalPaymentsProcessed, totalVolumeProcessed, balance, log,
                   sumSuccess, sumProcessed, stack, ret, now, reentries>>

\* A call of getStats between two transactions, or made once more.
CallGetStats ==
    /\ stack = <<>>
    /\ ret = None
    /\ view = NoView \/ view.op = "getStats"
    /\ view' = Answer("getStats", <<>>, getStats(World))
    /\ UNCHANGED <<totalPaymentsProcessed, totalVolumeProcessed, balance, log,
                   sumSuccess, sumProcessed, stack, ret, now, reentries>>

\* The caller of a read-only call has taken its answer.
ViewReturned ==
    /\ view # NoView
    /\ view' = NoView
    /\ UNCHANGED <<totalPaymentsProcessed, totalVolumeProcessed, balance, log,
                   sumSuccess, sumProcessed, stack, ret, now, reentries>>

\* ------------------------------------------- calls of anything else
\* The account that deployed the contract: the first signer of the tests.
Deployer == Alice

\* The functions the contract declares, the getters of its public state
\* variables and constants included.
Functions ==
    {"batchPay", "estimateBatchCost", "getStats", "totalPaymentsProcessed",
     "totalVolumeProcessed", "MIN_AMOUNT", "MAX_RECIPIENTS"}

\* receive() and fallback(): both revert.
ReceiveReverts == "Use batchPay function"
FallbackReverts == "Function does not exist"

\* Where a call with this calldata and no function of that name ends: empty
\* calldata in receive(), anything else in fallback().
Dispatch(selector) ==
    IF selector = ""
    THEN [outcome |-> ReceiveReverts]
    ELSE [outcome |-> FallbackReverts]

\* A transaction with value and calldata that names no function of the
\* contract: the value arrives, the code reverts, the revert returns it.
CallOutside(op, sender, selector, value) ==
    LET w1 == [World EXCEPT !.balance = Move(@, sender, Engine, value)]
    IN /\ selector \notin Functions
       /\ view' = Answer(op, <<sender, selector, value>>, Dispatch(selector))
       /\ SetWorld(RevertTo(World, w1))
       /\ UNCHANGED <<stack, ret, now, reentries>>

\* A plain transfer of value to the contract.
SendValue ==
    /\ stack = <<>>
    /\ ret = None
    /\ view = NoView
    /\ \E value \in {1, MIN_AMOUNT} :
          /\ balance[Deployer] >= value
          /\ CallOutside("receive", Deployer, "", value)

\* A call of a function the contract does not have, with or without value.
CallUnknown ==
    /\ stack = <<>>
    /\ ret = None
    /\ view = NoView
    /\ \E value \in {0, 1} :
          /\ balance[Deployer] >= value
          /\ CallOutside("fallback", Deployer, "owner", value)

Next ==
    \/ Transact
    \/ Transfer
    \/ UpdateStats
    \/ Refund
    \/ RefundExcess
    \/ ReceiveAccept
    \/ ReceiveReject
    \/ ReceiveReenter
    \/ Commit
    \/ CallEstimateBatchCost
    \/ CallGetStats
    \/ SendValue
    \/ CallUnknown
    \/ ViewReturned

Spec == Init /\ [][Next]_vars

\* The machine executes a call to its end: a step of batchPay that can be
\* taken is taken, and the receive code a transfer runs returns or reverts
\* (its gas is finite).
FairSpec ==
    /\ Spec
    /\ WF_vars(Transfer)
    /\ WF_vars(UpdateStats)
    /\ WF_vars(Refund)
    /\ WF_vars(RefundExcess)
    /\ WF_vars(ReceiveAccept \/ ReceiveReject)

\* ------------------------------------------------------- properties
\* The calls in progress, outermost first.
Live == {stack[k] : k \in {j \in 1..Len(stack) : stack[j].kind = "batchPay"}}

Returned == ret # None
CompletedCall == ret.outcome = Completed
PassedValidation == Returned /\ ret.results # <<>>

RECURSIVE SumWhere(_, _)
\* The amounts of the payments whose entry in flags is TRUE.
SumWhere(payments, flags) ==
    IF payments = <<>> THEN 0
    ELSE (IF flags[1] THEN payments[1].amount ELSE 0)
         + SumWhere(Tail(payments), Tail(flags))

RECURSIVE SumRefunds(_)
\* What the refunds that succeeded returned to the sender.
SumRefunds(refunds) ==
    IF refunds = <<>> THEN 0
    ELSE (IF refunds[1].success THEN refunds[1].amount ELSE 0)
         + SumRefunds(Tail(refunds))

Successes(results) == {k \in 1..Len(results) : results[k].success}
Failures(results) == {k \in 1..Len(results) : ~results[k].success}

\* C1: a call rejected by validation (EmptyBatch, BatchTooLarge,
\* InvalidRecipient, AmountTooSmall, InsufficientFunds) attempted no transfer,
\* left no event, and left the statistics and every balance as they were
\* before the call.
C1_RejectedCallHasNoEffect ==
    ret.outcome \in ValidationErrors =>
        /\ ret.attempts = <<>>
        /\ ret.refunds = <<>>
        /\ log = ret.pre.log
        /\ totalPaymentsProcessed = ret.pre.tpp
        /\ totalVolumeProcessed = ret.pre.tvp
        /\ balance = ret.pre.balance

\* A call with value attached was rejected for insufficient funds.
C1_Witness ==
    /\ ret.outcome = InsufficientFunds
    /\ ret.value > 0
    /\ Len(ret.payments) = 2

\* C2: a failed transfer is recorded as success = FALSE and does not end the
\* call: every payment of a call that passed validation is attempted
\* whatever became of the ones before it, and a call that reached its
\* reconciliation completes unless a refund failed, however many payments
\* failed.  (The one other way out is the checked addition of lines 205-206,
\* which is before the reconciliation and after every attempt.)
C2_FailuresDoNotAbort ==
    /\ \A f \in Live :
          /\ Len(f.outcomes) = f.i - 1
          /\ \A k \in 1..Len(f.outcomes) : f.results[k].success = f.outcomes[k]
          /\ f.pc = "pay" => f.i <= Len(f.payments)
          /\ f.pc # "pay" => f.i = Len(f.payments) + 1
    /\ PassedValidation =>
          /\ Len(ret.outcomes) = Len(ret.payments)
          /\ \A k \in 1..Len(ret.payments) : ret.results[k].success = ret.outcomes[k]
          /\ ret.statsWrites = 0 => (ret.outcome = Panic /\ ret.line \in {205, 206})
          /\ (ret.statsWrites = 1 /\ \A k \in 1..Len(ret.refunds) : ret.refunds[k].success)
                => ret.outcome = Completed

\* A call completed although every one of its two payments failed.
C2_Witness ==
    /\ CompletedCall
    /\ Len(ret.payments) = 2
    /\ ret.outcomes = <<FALSE, FALSE>>

\* C3: for every completed call totalProcessed + failedAmount + excess =
\* msg.value, with failedAmount = totalRequired - totalProcessed and excess =
\* msg.value - totalRequired, and neither subtraction underflows.
C3_Conservation ==
    /\ CompletedCall =>
          /\ ret.totalRequired = SumAmounts(ret.payments)
          /\ ret.failedAmount = ret.totalRequired - ret.totalProcessed
          /\ ret.excess = ret.value - ret.totalRequired
          /\ ret.failedAmount >= 0
          /\ ret.excess >= 0
          /\ ret.totalProcessed + ret.failedAmount + ret.excess = ret.value
    /\ ret.outcome = Panic => ret.line \notin {217, 224}
    /\ \A f \in Live :
          /\ f.totalProcessed <= f.totalRequired
          /\ f.totalRequired <= f.value

\* A completed call with something delivered, something failed and an excess.
C3_Witness ==
    /\ CompletedCall
    /\ ret.totalProcessed > 0
    /\ ret.failedAmount > 0
    /\ ret.excess > 0

\* C4: after a completed call, what was attached minus what the call
\* refunded to the sender is totalProcessed, the sum of the amounts of the
\* payments whose transfer succeeded; nothing of the call stays with the
\* contract, and an externally owned sender is out of pocket by exactly
\* the amounts delivered to others.
C4_SenderPaysOnlyDelivered ==
    CompletedCall =>
        /\ ret.value - SumRefunds(ret.refunds) = ret.totalProcessed
        /\ ret.totalProcessed = SumWhere(ret.payments, ret.outcomes)
        /\ balance[Engine] = ret.pre.balance[Engine]
        /\ (ret.sender \in EOAs /\ stack = <<>>) =>
              balance[ret.sender] =
                  ret.pre.balance[ret.sender] - ret.totalProcessed
                  + SumWhere(ret.payments,
                             [k \in 1..Len(ret.payments) |->
                                 ret.outcomes[k] /\ ret.payments[k].recipient = ret.sender])

\* A completed call that refunded both a failed payment and an excess.
C4_Witness ==
    /\ CompletedCall
    /\ Len(ret.refunds) = 2
    /\ ret.sender = Alice
    /\ ret.successCount = 1

\* C5: when the refund of failedAmount > 0 fails the call fails with
\* RefundFailed, and nothing of the call remains: statistics, balances
\* (those of the recipients already paid included) and events are as before.
C5_RefundFailedRollsBack ==
    /\ \A f \in Live : \A k \in 1..Len(f.refunds) : f.refunds[k].success
    /\ (Returned /\ ret.refunds # <<>> /\ ret.refunds[1].kind = "failed"
            /\ ~ret.refunds[1].success) => ret.outcome = RefundFailed
    /\ ret.outcome = RefundFailed =>
          /\ ret.failedAmount > 0
          /\ ret.refunds = <<[kind |-> "failed", amount |-> ret.failedAmount,
                              success |-> FALSE]>>
          /\ totalPaymentsProcessed = ret.pre.tpp
          /\ totalVolumeProcessed = ret.pre.tvp
          /\ balance = ret.pre.balance
          /\ log = ret.pre.log

\* RefundFailed after one payment had been delivered and one had failed.
C5_Witness ==
    /\ ret.outcome = RefundFailed
    /\ ret.outcomes = <<TRUE, FALSE>>
    /\ ret.payments[1].recipient = Bob

\* C6: when the refund of excess > 0 fails the call fails with
\* ExcessRefundFailed and nothing of the call remains, not the refund of the
\* failed amount delivered before it, nor the transfers, nor the statistics.
C6_ExcessRefundFailedRollsBack ==
    /\ (Returned /\ ret.refunds # <<>>
            /\ ret.refunds[Len(ret.refunds)].kind = "excess"
            /\ ~ret.refunds[Len(ret.refunds)].success) =>
          ret.outcome = ExcessRefundFailed
    /\ ret.outcome = ExcessRefundFailed =>
          /\ ret.excess > 0
          /\ ret.refunds[Len(ret.refunds)] =
                [kind |-> "excess", amount |-> ret.excess, success |-> FALSE]
          /\ totalPaymentsProcessed = ret.pre.tpp
          /\ totalVolumeProcessed = ret.pre.tvp
          /\ balance = ret.pre.balance
          /\ log = ret.pre.log

\* ExcessRefundFailed after a delivered payment and a delivered refund of
\* a failed one.
C6_Witness ==
    /\ ret.outcome = ExcessRefundFailed
    /\ Len(ret.refunds) = 2
    /\ ret.refunds[1].success
    /\ ret.successCount = 1

\* C7: between transactions totalPaymentsProcessed is the sum of successCount
\* and totalVolumeProcessed the sum of totalProcessed over the calls that
\* completed; a completed call with an excess adds what it delivered, not
\* what was attached.
C7_StatisticsAreSums ==
    /\ stack = <<>> =>
          /\ totalPaymentsProcessed = sumSuccess
          /\ totalVolumeProcessed = sumProcessed
    /\ (CompletedCall /\ ret.depth = 1
            /\ \A k \in 1..Len(ret.payments) : ret.payments[k].recipient # Carol
            /\ ret.sender # Carol) =>
          /\ totalPaymentsProcessed = ret.pre.tpp + ret.successCount
          /\ totalVolumeProcessed = ret.pre.tvp + ret.totalProcessed

\* The second transaction completed with an excess, after a first one that
\* delivered something.
C7_Witness ==
    /\ CompletedCall
    /\ stack = <<>>
    /\ ret.excess > 0
    /\ ret.totalProcessed > 0
    /\ ret.pre.tvp > 0

\* C8: in one call successCount is the number of results with success,
\* failureCount the number without, the two add up to the length of the
\* batch, and totalProcessed is the sum of the amounts of the successful
\* payments.
C8_ExactlyOnceAccounting ==
    /\ CompletedCall =>
          /\ ret.successCount = Cardinality(Successes(ret.results))
          /\ ret.failureCount = Cardinality(Failures(ret.results))
          /\ ret.successCount + ret.failureCount = Len(ret.payments)
          /\ ret.totalProcessed =
                SumWhere(ret.payments,
                         [k \in 1..Len(ret.results) |-> ret.results[k].success])
    /\ \A f \in Live :
          /\ f.successCount = Cardinality({k \in 1..(f.i - 1) : f.results[k].success})
          /\ f.failureCount = Cardinality({k \in 1..(f.i - 1) : ~f.results[k].success})

\* The three payments of the second boundary scenario: delivered, failed,
\* delivered.
C8_Witness ==
    /\ CompletedCall
    /\ Len(ret.results) = 3
    /\ ret.successCount = 2
    /\ ret.failureCount = 1

\* C9: the results of a completed call are as many as the payments, and
\* results[i] carries the recipient and the amount of payment i whether it
\* succeeded or failed.
C9_ResultsMirrorBatch ==
    CompletedCall =>
        /\ Len(ret.results) = Len(ret.payments)
        /\ \A k \in 1..Len(ret.payments) :
              /\ ret.results[k].recipient = ret.payments[k].recipient
              /\ ret.results[k].amount = ret.payments[k].amount

\* A completed call whose first payment failed and whose second, of another
\* amount and to another recipient, succeeded.
C9_Witness ==
    /\ CompletedCall
    /\ Len(ret.results) = 2
    /\ ~ret.results[1].success
    /\ ret.results[2].success
    /\ ret.payments[1] # ret.payments[2]

\* C10: a call that passed validation invokes the transfer once for each
\* payment, in the order of the batch: the attempts made so far are payments
\* 1, 2, ... without a gap or a repeat, and a call that reached its
\* reconciliation made exactly one attempt per payment.
C10_OneAttemptEachInOrder ==
    /\ \A f \in Live :
          /\ \A k \in 1..Len(f.attempts) : f.attempts[k] = k
          /\ Len(f.attempts) \in {f.i - 1, f.i}
          /\ Len(f.attempts) <= Len(f.payments)
          /\ f.pc # "pay" => Len(f.attempts) = Len(f.payments)
    /\ PassedValidation =>
          /\ Len(ret.attempts) = Len(ret.payments)
          /\ \A k \in 1..Len(ret.attempts) : ret.attempts[k] = k

\* A call in its reconciliation after three attempts.
C10_Witness ==
    \E f \in Live :
        /\ f.pc = "refund"
        /\ f.attempts = <<1, 2, 3>>

\* C11: a call fails with "No payments provided" exactly when its batch is
\* empty and with "Too many recipients" exactly when its batch is longer
\* than MAX_RECIPIENTS; a batch of 1 to MAX_RECIPIENTS payments is never
\* rejected for its size.
C11_SizeLimits ==
    Returned =>
        /\ ret.outcome = EmptyBatch <=> Len(ret.payments) = 0
        /\ ret.outcome = BatchTooLarge <=> Len(ret.payments) > MAX_RECIPIENTS

\* A batch of exactly MAX_RECIPIENTS payments was settled.
C11_Witness ==
    /\ CompletedCall
    /\ Len(ret.payments) = MAX_RECIPIENTS
    /\ ret.successCount = MAX_RECIPIENTS


\* The payments of a batch that break a per-payment rule.
ZeroRecipients(payments) ==
    {k \in 1..Len(payments) : payments[k].recipient = Zero}
SmallAmounts(payments) ==
    {k \in 1..Len(payments) : payments[k].amount < MIN_AMOUNT}
FirstOf(S) == CHOOSE k \in S : \A j \in S : k <= j
AdmissibleSize(payments) ==
    Len(payments) >= 1 /\ Len(payments) <= MAX_RECIPIENTS

\* C12 as stated: a zero recipient anywhere in the batch makes the call fail
\* with "Invalid recipient address", and an amount below MIN_AMOUNT anywhere
\* in the batch makes it fail with "Amount too small".
C12_AsStated ==
    Returned =>
        /\ ZeroRecipients(ret.payments) # {} => ret.outcome = InvalidRecipient
        /\ SmallAmounts(ret.payments) # {} => ret.outcome = AmountTooSmall

\* C12: a batch with a zero recipient or an amount below MIN_AMOUNT anywhere
\* in it is rejected as a whole, before any transfer and without effect.  In
\* a batch of admissible size the first payment in batch order to break a
\* rule decides the error, its recipient being looked at before its amount,
\* unless the sum of the amounts before it already overflows.  An amount of
\* exactly MIN_AMOUNT is not refused: neither error occurs in a batch without
\* a zero recipient and without an amount below MIN_AMOUNT.
C12_FirstViolationDecides ==
    Returned =>
        LET p == ret.payments
            bad == ZeroRecipients(p) \cup SmallAmounts(p)
        IN /\ bad # {} =>
                /\ ret.outcome \in ValidationErrors \cup {Panic}
                /\ ret.attempts = <<>>
                /\ ret.post = ret.pre
           /\ (bad # {} /\ AdmissibleSize(p)) =>
                LET k == FirstOf(bad)
                    before == SumAmounts(SubSeq(p, 1, k - 1))
                IN /\ ret.outcome = Panic <=> before > MaxUint
                   /\ ret.outcome = InvalidRecipient <=>
                         (before <= MaxUint /\ p[k].recipient = Zero)
                   /\ ret.outcome = AmountTooSmall <=>
                         (before <= MaxUint /\ p[k].recipient # Zero)
           /\ bad = {} => ret.outcome \notin {InvalidRecipient, AmountTooSmall}

\* A batch whose first payment is too small and whose second has the zero
\* address was refused for the amount, and a batch of payments of exactly
\* MIN_AMOUNT was settled before it.
C12_Witness ==
    /\ Returned
    /\ ret.payments = <<Pay(Bob, MIN_AMOUNT - 1), Pay(Zero, MIN_AMOUNT)>>
    /\ ret.outcome = AmountTooSmall
    /\ totalPaymentsProcessed > 0
    /\ totalVolumeProcessed = MIN_AMOUNT * totalPaymentsProcessed


\* Every payment of the batch passes the two per-payment rules.
IndividuallyValid(payments) ==
    ZeroRecipients(payments) = {} /\ SmallAmounts(payments) = {}

RECURSIVE SumOver(_, _, _)
\* s[lo] + ... + s[hi]
SumOver(s, lo, hi) ==
    IF lo > hi THEN 0
    ELSE IF lo = hi THEN s[lo]
    ELSE SumOver(s, lo, (lo + hi) \div 2)
         + SumOver(s, (lo + hi) \div 2 + 1, hi)

\* The BatchPaymentCompleted events of the transaction that stand.
IsCompleted(e) == e.event = "BatchPaymentCompleted"
CompletedEvents == {k \in 1..Len(log) : IsCompleted(log[k])}
SuccessesLogged ==
    SumOver([k \in 1..Len(log) |->
                IF IsCompleted(log[k]) THEN log[k].successCount ELSE 0],
            1, Len(log))
VolumeLogged ==
    SumOver([k \in 1..Len(log) |->
                IF IsCompleted(log[k]) THEN log[k].totalProcessed ELSE 0],
            1, Len(log))

\* C14: from one operation to the next neither counter decreases, and a
\* counter changes only by what completed batchPay calls delivered.  When a
\* transaction has returned, each counter exceeds its value before the
\* transaction by exactly the successes (the volume) of the calls that
\* completed in it; a transaction that ends in a validation failure, an
\* arithmetic abort or a reconciliation failure leaves both counters as they
\* were, and so does a completed call none of whose transfers succeeded
\* (none completing inside it).  estimateBatchCost and getStats leave both
\* counters as they found them.
C14_StatisticsOnlyGrow ==
    /\ (stack = <<>> /\ Returned) =>
          /\ totalPaymentsProcessed >= ret.pre.tpp
          /\ totalVolumeProcessed >= ret.pre.tvp
          /\ totalPaymentsProcessed - ret.pre.tpp = SuccessesLogged
          /\ totalVolumeProcessed - ret.pre.tvp = VolumeLogged
          /\ SuccessesLogged = 0 <=> VolumeLogged = 0
          /\ ret.outcome # Completed =>
                /\ totalPaymentsProcessed = ret.pre.tpp
                /\ totalVolumeProcessed = ret.pre.tvp
          /\ (CompletedCall /\ ret.successCount = 0
                /\ Cardinality(CompletedEvents) = 1) =>
                /\ totalPaymentsProcessed = ret.pre.tpp
                /\ totalVolumeProcessed = ret.pre.tvp
    /\ view # NoView =>
          view.found = <<totalPaymentsProcessed, totalVolumeProcessed>>

\* After a transaction that delivered something, a call completed with all
\* of its transfers failed and the counters kept their values.
C14_Witness ==
    /\ stack = <<>>
    /\ CompletedCall
    /\ ret.successCount = 0
    /\ ret.failureCount > 0
    /\ Cardinality(CompletedEvents) = 1
    /\ totalPaymentsProcessed > 0
    /\ totalPaymentsProcessed = ret.pre.tpp


\* Every reconciliation transfer the call owed was made and succeeded.
ReconciliationSucceeded(r) ==
    /\ \A k \in 1..Len(r.refunds) : r.refunds[k].success
    /\ r.totalRequired - r.totalProcessed > 0 =>
          \E k \in 1..Len(r.refunds) :
              r.refunds[k] = [kind |-> "failed", success |-> TRUE,
                              amount |-> r.totalRequired - r.totalProcessed]
    /\ r.value - r.totalRequired > 0 =>
          \E k \in 1..Len(r.refunds) :
              r.refunds[k] = [kind |-> "excess", success |-> TRUE,
                              amount |-> r.value - r.totalRequired]

ReconciliationFailures == {RefundFailed, ExcessRefundFailed}

\* C15 as stated: a call ends in a validation failure, in completion or in
\* a reconciliation failure, and it completes exactly when validation passes
\* and every reconciliation transfer it owes succeeds.
C15_AsStated ==
    Returned =>
        /\ ret.outcome \in
              ValidationErrors \cup {Completed} \cup ReconciliationFailures
        /\ CompletedCall <=>
              /\ Validate(ret.payments, ret.value).err = "ok"
              /\ ReconciliationSucceeded(ret)

\* C15: a call ends in exactly one of four ways: a validation failure, an
\* arithmetic abort (the checked addition of line 146 or of lines 205-206
\* overflows), completion with one result per payment, or a reconciliation
\* failure.  Which one is decided by the checks in their order: the
\* validation error if validation fails; the abort if the sum of the amounts
\* or a counter overflows; otherwise completion if and only if every
\* reconciliation transfer owed (failedAmount > 0, excess > 0) succeeds, and
\* a reconciliation failure if not.  Every way but completion leaves the
\* state as it was before the call.
C15_FourOutcomes ==
    Returned =>
        LET v == Validate(ret.payments, ret.value)
        IN /\ ret.outcome \in ValidationErrors \cup {Panic, Completed}
                                  \cup ReconciliationFailures
           /\ ret.outcome \in ValidationErrors <=> v.err \in ValidationErrors
           /\ ret.outcome \in ValidationErrors => ret.outcome = v.err
           /\ ret.outcome = Panic <=>
                 (v.err = Panic \/ (v.err = "ok" /\ ret.statsWrites = 0))
           /\ CompletedCall <=>
                 /\ v.err = "ok"
                 /\ ret.statsWrites = 1
                 /\ ReconciliationSucceeded(ret)
           /\ ret.outcome \in ReconciliationFailures <=>
                 /\ v.err = "ok"
                 /\ ret.statsWrites = 1
                 /\ ~ReconciliationSucceeded(ret)
           /\ CompletedCall => Len(ret.results) = Len(ret.payments)
           /\ ~CompletedCall => ret.post = ret.pre

\* A call whose batch passed validation and whose transfers were made
\* aborted on the overflow of the volume counter, before any reconciliation
\* transfer; a call whose amounts overflow aborts in validation.
C15_Witness ==
    /\ Returned
    /\ ret.outcome = Panic
    /\ ret.line = 206
    /\ Len(ret.attempts) = Len(ret.payments)
    /\ ret.refunds = <<>>
    /\ Validate(ret.payments, ret.value).err = "ok"


\* C16: a batchPay call that has begun reaches a terminal outcome: whenever
\* calls are in progress, eventually none is and the outermost has returned
\* its outcome.  The loops run over a batch of at most MAX_RECIPIENTS
\* payments and every transfer returns success or failure, so no call stays
\* suspended in the middle of its batch.
C16_CallsTerminate ==
    (stack # <<>>) ~> (stack = <<>> /\ Returned)

\* A call is in the middle of a batch of MAX_RECIPIENTS payments.
C16_Witness ==
    \E f \in Live :
        /\ f.pc = "pay"
        /\ Len(f.payments) = MAX_RECIPIENTS
        /\ f.i = MAX_RECIPIENTS \div 2


\* What the calls in progress that have passed lines 205-206 have added.
WrittenInFlight(field) ==
    SumOver([k \in 1..Len(stack) |->
                IF stack[k].kind = "batchPay" /\ stack[k].statsWrites = 1
                THEN stack[k][field] ELSE 0],
            1, Len(stack))

\* C17: however calls are nested (a recipient or the refunded sender calling
\* batchPay while it is being paid), no addition to the counters is lost or
\* applied twice: at every point totalPaymentsProcessed is the sum of
\* successCount over the calls that completed plus the successCount of the
\* calls in progress that have made their addition, and
\* totalVolumeProcessed the same of totalProcessed; with no call in
\* progress they are the sums over exactly the completed calls.  A call
\* undone by the revert of its caller counts as not completed.
C17_NoLostOrDoubleUpdate ==
    /\ totalPaymentsProcessed = sumSuccess + WrittenInFlight("successCount")
    /\ totalVolumeProcessed = sumProcessed + WrittenInFlight("totalProcessed")

\* A recipient called batchPay while it was being paid, that call completed
\* with a success, and the outer call then completed with successes of its
\* own: the counters hold both.
C17_Witness ==
    /\ stack = <<>>
    /\ CompletedCall
    /\ ret.successCount > 0
    /\ \E k \in 1..Len(ret.payments) : ret.payments[k].recipient = Carol
    /\ Cardinality(CompletedEvents) = 2
    /\ totalPaymentsProcessed > ret.pre.tpp + ret.successCount


\* What the calls in progress from frame k of the stack upwards (the call of
\* frame k and the calls nested in it) have added at lines 205-206.
WrittenFrom(k, field) ==
    SumOver([j \in 1..Len(stack) |->
                IF j >= k /\ stack[j].kind = "batchPay"
                          /\ stack[j].statsWrites = 1
                THEN stack[j][field] ELSE 0],
            1, Len(stack))

\* C18: a call writes the counters at most once, after the last transfer
\* attempt of its payment loop has returned and before its first
\* reconciliation transfer.  What the counters have gained since a call
\* began is what the calls nested in it that completed have added, what
\* those still in progress have written, and the call's own write once it
\* is made: while a call is in its payment loop with no call nested in it
\* completed or in progress, the counters are as it found them.
C18_OneWriteAfterTheLoop ==
    /\ \A k \in 1..Len(stack) :
          stack[k].kind = "batchPay" =>
             LET f == stack[k]
             IN /\ f.statsWrites \in {0, 1}
                /\ f.pc \in {"pay", "stats"} => f.statsWrites = 0
                /\ f.statsWrites = 1 =>
                      /\ Len(f.attempts) = Len(f.payments)
                      /\ Len(f.outcomes) = Len(f.payments)
                      /\ f.pc \in {"refund", "excess"}
                /\ f.refunds # <<>> => f.statsWrites = 1
                /\ totalPaymentsProcessed - f.snap.tpp
                      = (sumSuccess - f.snap.sumSuccess)
                        + WrittenFrom(k, "successCount")
                /\ totalVolumeProcessed - f.snap.tvp
                      = (sumProcessed - f.snap.sumProcessed)
                        + WrittenFrom(k, "totalProcessed")
                /\ (f.pc = "pay" /\ k = Len(stack)
                      /\ sumSuccess = f.snap.sumSuccess) =>
                      /\ totalPaymentsProcessed = f.snap.tpp
                      /\ totalVolumeProcessed = f.snap.tvp
    /\ Returned =>
          /\ ret.statsWrites \in {0, 1}
          /\ ret.refunds # <<>> => ret.statsWrites = 1
          /\ ret.statsWrites = 1 => Len(ret.outcomes) = Len(ret.payments)

\* A call in its payment loop with two successful transfers behind it and
\* the counters as it found them.
C18_Witness ==
    \E f \in Live :
        /\ f.pc = "pay"
        /\ f.successCount = 2
        /\ f.statsWrites = 0
        /\ totalPaymentsProcessed = f.snap.tpp
        /\ f.snap.tpp > 0


Estimated == view.op = "estimateBatchCost"

\* C19 as stated: for every batch estimateBatchCost returns the sum of the
\* amounts.
C19_AsStated ==
    Estimated =>
        view.output = [outcome |-> "returned", total |-> SumAmounts(view.input)]

\* C19: for every batch whose amounts add up within the machine word, the
\* empty batch, a batch longer than MAX_RECIPIENTS and batches with zero
\* recipients or amounts below MIN_AMOUNT included, estimateBatchCost
\* returns the sum of the amounts; when the sum does not fit it aborts on
\* the overflow; it never raises a validation error.  For a batch that
\* passes the size and per-payment checks the estimate is the totalRequired
\* batchPay compares msg.value with, so a call that attaches the estimate
\* never fails with "Insufficient funds sent".
C19_EstimateIsTheSum ==
    /\ Estimated =>
          /\ SumAmounts(view.input) <= MaxUint =>
                view.output = [outcome |-> "returned",
                               total |-> SumAmounts(view.input)]
          /\ SumAmounts(view.input) > MaxUint => view.output.outcome = Panic
          /\ view.output.outcome \notin ValidationErrors
    /\ Returned =>
          LET v == Validate(ret.payments, ret.value)
              e == estimateBatchCost(ret.payments)
          IN /\ v.err \in {"ok", InsufficientFunds} =>
                   e = [outcome |-> "returned", total |-> v.totalRequired]
             /\ PassedValidation =>
                   e = [outcome |-> "returned", total |-> ret.totalRequired]
             /\ (e.outcome = "returned" /\ ret.value = e.total) =>
                   ret.outcome # InsufficientFunds

\* The estimate of a batch of MAX_RECIPIENTS + 1 payments, which batchPay
\* refuses for its size, asked for after a transaction was settled.
C19_Witness ==
    /\ Estimated
    /\ Len(view.input) = MAX_RECIPIENTS + 1
    /\ view.output.outcome = "returned"
    /\ view.output.total = MIN_AMOUNT * (MAX_RECIPIENTS + 1)
    /\ totalPaymentsProcessed > 0


\* C20: estimateBatchCost and getStats leave the counters and every balance
\* as they found them; getStats returns the pair (totalPaymentsProcessed,
\* totalVolumeProcessed) as it is stored; and a read-only call repeated with
\* the same input, no transaction in between, returns what it returned
\* before.
C20_ReadsChangeNothing ==
    view # NoView =>
        /\ view.found = <<totalPaymentsProcessed, totalVolumeProcessed>>
        /\ view.balances = balance
        /\ view.op = "getStats" =>
              view.output = [outcome |-> "returned",
                             paymentsProcessed |-> totalPaymentsProcessed,
                             volumeProcessed |-> totalVolumeProcessed]
        /\ view.previous.outcome # "none" => view.output = view.previous

\* getStats called twice in a row after transactions that delivered
\* something.
C20_Witness ==
    /\ view.op = "getStats"
    /\ view.previous.outcome = "returned"
    /\ view.output.paymentsProcessed > 0
    /\ view.output.volumeProcessed > view.output.paymentsProcessed




\* The events a returned call has left: what the log holds beyond the log
\* the call found.
Segment(r) == SubSeq(r.post.log, Len(r.pre.log) + 1, Len(r.post.log))
IsInitiated(e) == e.event = "BatchPaymentInitiated"
Initiations(s) == {k \in 1..Len(s) : IsInitiated(s[k])}

\* The events the claim expects of a completed call, in its order.
ExpectedEvents(r) ==
    LET n == Len(r.payments)
    IN [k \in 1..(n + 2) |->
          IF k = 1
          THEN [event |-> "BatchPaymentInitiated", sender |-> r.sender,
                totalRecipients |-> n, totalAmount |-> SumAmounts(r.payments),
                timestamp |-> now]
          ELSE IF k = n + 2
          THEN [event |-> "BatchPaymentCompleted", sender |-> r.sender,
                successCount |-> r.successCount,
                failureCount |-> r.failureCount,
                totalProcessed |-> r.totalProcessed]
          ELSE IF r.results[k - 1].success
          THEN [event |-> "PaymentSuccess", sender |-> r.sender,
                recipient |-> r.results[k - 1].recipient,
                amount |-> r.results[k - 1].amount, index |-> k - 2]
          ELSE [event |-> "PaymentFailed", sender |-> r.sender,
                recipient |-> r.results[k - 1].recipient,
                amount |-> r.results[k - 1].amount, index |-> k - 2,
                reason |-> "Transfer failed"]]

RECURSIVE Embeds(_, _, _, _)
\* e[i], e[i+1], ... occur in s from s[j] on, in this order.
Embeds(e, s, i, j) ==
    IF i > Len(e) THEN TRUE
    ELSE IF j > Len(s) THEN FALSE
    ELSE IF e[i] = s[j] THEN Embeds(e, s, i + 1, j + 1)
    ELSE Embeds(e, s, i, j + 1)

\* C21: the events of a completed batchPay call are, in this order, one
\* BatchPaymentInitiated (the sender, the number of payments, the sum of the
\* amounts and not msg.value, the block's timestamp); for each payment in
\* ascending order one PaymentSuccess or PaymentFailed with the payment's
\* index, recipient and amount, the one that agrees with results[i]; one
\* BatchPaymentCompleted with successCount, failureCount and totalProcessed.
\* A call that completed with no call completed inside it has left exactly
\* these events.  Where calls made by a recipient or by the refunded sender
\* completed inside it, its events are, in this order, among theirs, its
\* BatchPaymentInitiated is the first of all, and every call that left a
\* BatchPaymentInitiated left one event per payment and one
\* BatchPaymentCompleted besides.
C21_EventOrder ==
    (Returned /\ CompletedCall) =>
        LET s == Segment(ret)
            e == ExpectedEvents(ret)
        IN /\ Len(s) >= Len(e)
           /\ s[1] = e[1]
           /\ IF Cardinality(Initiations(s)) = 1
              THEN s = e
              ELSE /\ Embeds(e, s, 1, 1)
                   /\ Len(s) = SumOver([k \in 1..Len(s) |->
                                          IF IsInitiated(s[k])
                                          THEN s[k].totalRecipients + 2 ELSE 0],
                                       1, Len(s))

\* A completed call of three payments, the second one failed, with more
\* attached than the amounts add up to.
C21_Witness ==
    /\ Returned /\ CompletedCall
    /\ Len(ret.payments) = 3
    /\ ret.outcomes = <<TRUE, FALSE, TRUE>>
    /\ ret.value > ret.totalRequired
    /\ Len(Segment(ret)) = 5



\* C22: every PaymentFailed event carries the revert reason the failed call
\* returned, and the generic "Transfer failed" only when the call returned
\* none.
C22_ReasonPropagated ==
    \A k \in 1..Len(log) :
        log[k].event = "PaymentFailed" =>
            log[k].reason = IF ReturnData(log[k].recipient) # ""
                            THEN ReturnData(log[k].recipient)
                            ELSE "Transfer failed"



\* C23: a call of owner() returns the account that deployed the contract,
\* whatever batchPay, estimateBatchCost and getStats calls came before it.
C23_OwnerIsDeployer ==
    (view.op = "fallback" /\ view.input[2] = "owner") =>
        view.output = [outcome |-> "returned", owner |-> Deployer]



\* The amount of the transfer frame k of the stack is waiting for, when the
\* receive code of its recipient is running: it has left the contract and
\* is not yet in the frame's books.
InFlight(k) ==
    IF k < Len(stack) /\ stack[k + 1].kind = "receive"
    THEN LET f == stack[k]
         IN IF f.pc = "pay" THEN f.payments[f.i].amount
            ELSE IF f.pc = "refund" THEN f.failedAmount
            ELSE f.excess
    ELSE 0

\* What the call of frame k still holds of the value attached to it.
Held(k) ==
    stack[k].value - stack[k].totalProcessed - SumRefunds(stack[k].refunds)
        - InFlight(k)

\* C24: when a batchPay call ends, at any depth and with any outcome, the
\* contract's balance is what it was before the call's msg.value arrived;
\* between transactions the contract holds nothing; and while calls are in
\* progress the contract's balance is the sum of what each of them still
\* holds of its own msg.value, none of them holding less than nothing: a
\* call nested in another one spends none of the value attached to it.
C24_NothingStranded ==
    /\ Returned => ret.post.balance[Engine] = ret.pre.balance[Engine]
    /\ stack = <<>> => balance[Engine] = 0
    /\ \A k \in 1..Len(stack) : stack[k].kind = "batchPay" => Held(k) >= 0
    /\ balance[Engine]
          = SumOver([k \in 1..Len(stack) |->
                        IF stack[k].kind = "batchPay" THEN Held(k) ELSE 0],
                    1, Len(stack))

\* A call made by a recipient while it was paid has completed, with an
\* excess returned to it, and the call it is nested in still holds value.
C24_Witness ==
    /\ Returned /\ CompletedCall
    /\ ret.depth = 2
    /\ ret.excess > 0
    /\ ret.pre.balance[Engine] > 0
    /\ stack # <<>>



\* C25: from the first transfer attempt of a batchPay call to its end, no
\* other batchPay call has any effect: no call is in progress inside it, and
\* the log holds no BatchPaymentInitiated but its own since it began.
C25_SingleUnit ==
    \A k \in 1..Len(stack) :
        (stack[k].kind = "batchPay" /\ stack[k].attempts # <<>>) =>
            /\ \A j \in (k + 1)..Len(stack) : stack[j].kind # "batchPay"
            /\ Cardinality(Initiations(
                  SubSeq(log, Len(stack[k].snap.log) + 1, Len(log)))) = 1



\* The return transfers of one kind among the refunds of a call.
RefundsOf(refunds, kind) == {k \in 1..Len(refunds) : refunds[k].kind = kind}

\* C26: a call that reaches reconciliation attempts a return transfer of
\* failedAmount = totalRequired - totalProcessed to its sender if and only if
\* failedAmount > 0, and one of excess = msg.value - totalRequired if and
\* only if excess > 0 and the return of failedAmount, where due, succeeded.
\* Where both are made the one of failedAmount comes first; neither is made
\* twice; none is of zero value; the call ends with "Refund failed" exactly
\* when the first one failed and with "Excess refund failed" exactly when
\* the second one did.  A return transfer in progress goes to the sender of
\* the call and carries a positive amount.
C26_RefundsInOrder ==
    /\ (Returned /\ ret.statsWrites = 1) =>
          LET fa == ret.totalRequired - ret.totalProcessed
              ex == ret.value - ret.totalRequired
              r == ret.refunds
              failed == RefundsOf(r, "failed")
              excess == RefundsOf(r, "excess")
          IN /\ (failed # {}) <=> (fa > 0)
             /\ (excess # {}) <=>
                   (ex > 0 /\ (fa > 0 => \A k \in failed : r[k].success))
             /\ Cardinality(failed) <= 1 /\ Cardinality(excess) <= 1
             /\ Len(r) = Cardinality(failed) + Cardinality(excess)
             /\ (failed # {} /\ excess # {}) =>
                   r[1].kind = "failed" /\ r[1].success /\ r[2].kind = "excess"
             /\ \A k \in failed : r[k].amount = fa
             /\ \A k \in excess : r[k].amount = ex
             /\ \A k \in 1..Len(r) : r[k].amount > 0
             /\ (ret.outcome = RefundFailed) <=> (\E k \in failed : ~r[k].success)
             /\ (ret.outcome = ExcessRefundFailed)
                   <=> (\E k \in excess : ~r[k].success)
             /\ (ret.outcome = Completed) <=> (\A k \in 1..Len(r) : r[k].success)
    /\ \A k \in 1..(Len(stack) - 1) :
          (stack[k].kind = "batchPay" /\ stack[k].pc \in {"refund", "excess"}
              /\ stack[k + 1].kind = "receive") =>
             /\ InFlight(k) > 0
             /\ stack[k + 1].who = stack[k].sender
             /\ stack[k].pc = "refund" =>
                   /\ stack[k].refunds = <<>>
                   /\ InFlight(k) = stack[k].totalRequired - stack[k].totalProcessed
             /\ stack[k].pc = "excess" =>
                   /\ InFlight(k) = stack[k].value - stack[k].totalRequired
                   /\ \A j \in 1..Len(stack[k].refunds) :
                         /\ stack[k].refunds[j].kind = "failed"
                         /\ stack[k].refunds[j].success

\* A completed call that returned the amount of a failed payment first and
\* the excess after it.
C26_Witness ==
    /\ Returned /\ CompletedCall
    /\ Len(ret.refunds) = 2
    /\ ret.refunds[1].kind = "failed"
    /\ ret.refunds[2].kind = "excess"
    /\ ret.successCount > 0



\* The payments of a batch addressed to the contract itself.
ToEngine(payments) == {i \in 1..Len(payments) : payments[i].recipient = Engine}

\* C27: a plain transfer of value to the contract reverts in receive() and a
\* call of a function it does not have reverts in fallback(), with or
\* without value, and both leave every balance, the contract's included,
\* and both counters as they were.  Hence the transfer of a payment whose
\* recipient is the contract itself fails whenever it is attempted (the
\* transfer a call in progress made last, and all those of a call that has
\* returned); a call that completes reports it as failed, counts it in
\* failureCount and not in totalProcessed, and has returned its amount to
\* the sender within the refund of failedAmount.
C27_OutsideValueRejected ==
    /\ view.op = "receive" => view.output = [outcome |-> ReceiveReverts]
    /\ view.op = "fallback" => view.output = [outcome |-> FallbackReverts]
    /\ view.op \in {"receive", "fallback"} =>
          /\ view.balances = balance
          /\ view.found = <<totalPaymentsProcessed, totalVolumeProcessed>>
          /\ balance[Engine] = 0
    /\ \A f \in Live :
          LET i == Len(f.outcomes)
          IN (i > 0 /\ f.payments[i].recipient = Engine) => ~f.outcomes[i]
    /\ Returned =>
          \A i \in ToEngine(ret.payments) :
              /\ i <= Len(ret.outcomes) => ~ret.outcomes[i]
              /\ CompletedCall =>
                    /\ ~ret.results[i].success
                    /\ ret.failureCount >= 1
                    /\ ret.totalProcessed
                          <= ret.totalRequired - ret.payments[i].amount
                    /\ \E k \in RefundsOf(ret.refunds, "failed") :
                          /\ ret.refunds[k].success
                          /\ ret.refunds[k].amount >= ret.payments[i].amount
                    /\ ret.post.balance[ret.sender]
                          = ret.pre.balance[ret.sender] - ret.totalProcessed

\* A plain transfer of value to the contract, made after a transaction that
\* delivered something, has been turned away.
C27_Witness ==
    /\ view.op = "receive"
    /\ view.input[3] > 0
    /\ view.output.outcome = ReceiveReverts
    /\ totalVolumeProcessed > 0



C29_SenderCannotReceive ==
    (Returned /\ ret.results # <<>>
        /\ \A k \in 1..Len(ret.refunds) : ~ret.refunds[k].success) =>
        LET somePaymentFailed == \E i \in 1..Len(ret.outcomes) : ~ret.outcomes[i]
            excess == ret.value > ret.totalRequired
        IN /\ CompletedCall =>
                 /\ Len(ret.outcomes) = Len(ret.payments)
                 /\ ~somePaymentFailed
                 /\ ret.value = ret.totalRequired
                 /\ ret.refunds = <<>>
           /\ (Len(ret.outcomes) = Len(ret.payments)
                  /\ (somePaymentFailed \/ excess)) =>
                 /\ ret.outcome \in {RefundFailed, ExcessRefundFailed, Panic}
                 /\ ret.statsWrites = 1 =>
                       ret.outcome = IF somePaymentFailed
                                     THEN RefundFailed ELSE ExcessRefundFailed
                 /\ ret.post = ret.pre
                 /\ \A a \in Accounts : ret.post.balance[a] = ret.pre.balance[a]

\* A call whose first transfer succeeded and whose second failed, made by a
\* sender that refused the refund: it failed with "Refund failed" and the
\* first recipient has what it had.
C29_Witness ==
    /\ Returned
    /\ ret.outcome = RefundFailed
    /\ ret.outcomes = <<TRUE, FALSE>>
    /\ ret.payments[1].recipient = Bob
    /\ ret.post.balance[Bob] = ret.pre.balance[Bob]
    /\ balance[Bob] = ret.pre.balance[Bob]



\* The recipients of a batch include no contract that can call batchPay
\* while it is paid: the counters the call adds to at lines 205-206 are the
\* ones it found.
NoCallsInside(payments) ==
    \A i \in 1..Len(payments) : payments[i].recipient # Carol

\* C30: no unsigned value wraps.  Both counters and every total of a call
\* in progress lie within the machine word, and between transactions the
\* counters are the true sums of what the completed calls delivered.  A batchPay call whose batch has
\* an admissible size and valid payments and whose amounts add up to more
\* than MaxUint aborts at line 146 with no transfer attempted; a call that
\* passes validation works with the true sum.  A call whose successCount or
\* totalProcessed does not fit on top of the counter it is added to aborts
\* at lines 205-206 before any reconciliation transfer.  Every abort leaves
\* both counters, every balance and the log as the call found them.  An
\* estimateBatchCost call whose amounts add up to more than MaxUint aborts
\* and changes nothing, and an estimate that is returned is the true sum.
C30_NoWraparound ==
    /\ totalPaymentsProcessed \in 0..MaxUint
    /\ totalVolumeProcessed \in 0..MaxUint
    /\ stack = <<>> =>
          /\ totalPaymentsProcessed = sumSuccess
          /\ totalVolumeProcessed = sumProcessed
    /\ \A f \in Live :
          /\ f.totalRequired \in 0..MaxUint
          /\ f.totalProcessed \in 0..f.totalRequired
          /\ f.successCount + f.failureCount <= Len(f.payments)
    /\ Returned =>
          LET p == ret.payments
          IN /\ (AdmissibleSize(p) /\ IndividuallyValid(p)
                    /\ SumAmounts(p) > MaxUint) =>
                   /\ ret.outcome = Panic
                   /\ ret.line = 146
                   /\ ret.attempts = <<>>
             /\ PassedValidation =>
                   /\ ret.totalRequired = SumAmounts(p)
                   /\ ret.totalRequired <= MaxUint
             /\ (PassedValidation /\ NoCallsInside(p)
                    /\ Len(ret.outcomes) = Len(p)) =>
                   /\ ret.pre.tpp + ret.successCount > MaxUint =>
                         (ret.outcome = Panic /\ ret.line = 205)
                   /\ (ret.pre.tpp + ret.successCount <= MaxUint
                          /\ ret.pre.tvp + ret.totalProcessed > MaxUint) =>
                         (ret.outcome = Panic /\ ret.line = 206)
             /\ ret.outcome = Panic =>
                   /\ ret.line \in {146, 205, 206}
                   /\ ret.refunds = <<>>
                   /\ ret.statsWrites = 0
                   /\ ret.post = ret.pre
             /\ CompletedCall =>
                   /\ ret.post.tpp <= MaxUint
                   /\ ret.post.tvp <= MaxUint
    /\ Estimated =>
          /\ SumAmounts(view.input) > MaxUint =>
                /\ view.output = [outcome |-> Panic]
                /\ view.found = <<totalPaymentsProcessed, totalVolumeProcessed>>
                /\ view.balances = balance
          /\ view.output.outcome = "returned" =>
                /\ view.output.total = SumAmounts(view.input)
                /\ view.output.total <= MaxUint

\* A call whose transfers all succeeded aborted because what it delivered
\* did not fit on top of the volume counter, and the recipient has what it
\* had before.
C30_Witness ==
    /\ Returned
    /\ ret.outcome = Panic
    /\ ret.line = 206
    /\ ret.successCount = Len(ret.payments)
    /\ ret.pre.tvp + ret.totalProcessed > MaxUint
    /\ balance = ret.pre.balance
    /\ totalVolumeProcessed = ret.pre.tvp


====
